---- MODULE Spec2Model ----
(***************************************************************************)
(* Model of CANFD_Rx.py: the CANFDReader class.  The object initializes a  *)
(* PCAN channel (InitializeFD, then two SetValue calls on the message      *)
(* filter), then read_messages polls ReadFD forever; a frame returned with *)
(* PCAN_ERROR_OK is decoded and printed by process_message_fd, any other   *)
(* status except PCAN_ERROR_QRCVEMPTY goes to show_status.                 *)
(*                                                                         *)
(* Printed text is modelled as a sequence of one-character strings, so     *)
(* that hex and decimal formatting are computed digit by digit.            *)
(***************************************************************************)
EXTENDS Integers, Sequences, FiniteSets, TLC

(***************************************************************************)
(* Bounds of the model.                                                    *)
(***************************************************************************)
\* DLC is an unsigned byte of the adapter's message; values above 15 are malformed.
MaxDlc == 17
\* MSGTYPE is an unsigned byte; 0..31 covers the RTR, EXTENDED, FD, BRS and ESI bits.
MaxMsgType == 31

(***************************************************************************)
(* Values of the PCANBasic library that the code names.                    *)
(***************************************************************************)
PCAN_ERROR_OK == 0
PCAN_ERROR_BUSHEAVY == 8
PCAN_ERROR_QRCVEMPTY == 32
PCAN_ERROR_QOVERRUN == 64
PCAN_ERROR_ILLHW == 5120
PCAN_MESSAGE_RTR == 1
PCAN_MESSAGE_EXTENDED == 2
\* capacity of the DATA buffer of a CAN-FD message
DataCapacity == 64
\* microseconds per second, the divisor of get_time_string
Million == 1000000

\* statuses InitializeFD and SetValue can return
InitStatuses == {PCAN_ERROR_OK, PCAN_ERROR_BUSHEAVY, PCAN_ERROR_ILLHW}
\* statuses ReadFD can return
ReadStatuses == {PCAN_ERROR_OK, PCAN_ERROR_QRCVEMPTY, PCAN_ERROR_BUSHEAVY,
                 PCAN_ERROR_QOVERRUN, PCAN_ERROR_ILLHW}

MsgTypes == 0..MaxMsgType
Dlcs == 0..MaxDlc
\* 0x123, 0x7FF, 0x800, 0x1ABC, 0x1ABCDE, 0x1FFFFFFF
Ids == {291, 2047, 2048, 6844, 1752286, 536870911}
\* microsecond tick counts, among them the decimal ties k*100000 + 50000
Ticks == {0, 50000, 150000, 250000, 750000, 999999, 1500000, 2345678}
\* two payload buffers of DataCapacity bytes; the first starts 0x0A 0xFF 0x01
PayloadA == [i \in 0..(DataCapacity - 1) |->
               IF i = 0 THEN 10 ELSE IF i = 1 THEN 255 ELSE IF i = 2 THEN 1
               ELSE (i * 7) % 256]
PayloadB == [i \in 0..(DataCapacity - 1) |-> 255 - 3 * i]
Payloads == {PayloadA, PayloadB}

(***************************************************************************)
(* Integer helpers of Python the code relies on.                           *)
(***************************************************************************)
RECURSIVE BitAnd(_, _)
\* a & b on non-negative integers
BitAnd(a, b) ==
    IF a = 0 \/ b = 0 THEN 0
    ELSE (IF a % 2 = 1 /\ b % 2 = 1 THEN 1 ELSE 0) + 2 * BitAnd(a \div 2, b \div 2)

HexDigits == <<"0", "1", "2", "3", "4", "5", "6", "7",
               "8", "9", "A", "B", "C", "D", "E", "F">>

RECURSIVE FormatX(_)
\* f"{n:X}": uppercase hex, natural number of digits, no padding
FormatX(n) ==
    IF n < 16 THEN <<HexDigits[n + 1]>>
    ELSE FormatX(n \div 16) \o <<HexDigits[(n % 16) + 1]>>

RECURSIVE FormatD(_)
\* decimal digits of a non-negative integer
FormatD(n) ==
    IF n < 10 THEN <<HexDigits[n + 1]>>
    ELSE FormatD(n \div 10) \o <<HexDigits[(n % 10) + 1]>>

RECURSIVE Join(_)
\* " ".join(parts)
Join(parts) ==
    IF Len(parts) = 0 THEN <<>>
    ELSE IF Len(parts) = 1 THEN parts[1]
    ELSE parts[1] \o <<" ">> \o Join(Tail(parts))

\* data[:n] of a buffer of DataCapacity bytes, as a sequence
Slice(data, n) ==
    [i \in 1..(IF n < DataCapacity THEN n ELSE DataCapacity) |-> data[i - 1]]

(***************************************************************************)
(* The decoder functions.                                                  *)
(***************************************************************************)
\* variant: the remote bit is tested before the extended bit
get_type_string_rtr_first(msgtype) ==
    IF BitAnd(msgtype, PCAN_MESSAGE_RTR) = PCAN_MESSAGE_RTR
    THEN "RTR Frame (Standard ID)"
    ELSE IF BitAnd(msgtype, PCAN_MESSAGE_EXTENDED) = PCAN_MESSAGE_EXTENDED
         THEN "Extended Frame"
         ELSE "Standard Frame"

get_type_string(msgtype) ==
    IF BitAnd(msgtype, PCAN_MESSAGE_EXTENDED) = PCAN_MESSAGE_EXTENDED
    THEN IF BitAnd(msgtype, PCAN_MESSAGE_RTR) = PCAN_MESSAGE_RTR
         THEN "RTR Frame (Extended ID)"
         ELSE "Extended Frame"
    ELSE IF BitAnd(msgtype, PCAN_MESSAGE_RTR) = PCAN_MESSAGE_RTR
         THEN "RTR Frame (Standard ID)"
         ELSE "Standard Frame"

\* variant: the 11-bit mask is left out
get_id_string_nomask(id, msgtype) ==
    IF BitAnd(msgtype, PCAN_MESSAGE_EXTENDED) = PCAN_MESSAGE_EXTENDED
    THEN FormatX(id)
    ELSE FormatX(id)

get_id_string(id, msgtype) ==
    IF BitAnd(msgtype, PCAN_MESSAGE_EXTENDED) = PCAN_MESSAGE_EXTENDED
    THEN FormatX(id)
    ELSE FormatX(BitAnd(id, 2047))

\* variant: the final else clamps to the largest length
get_length_from_dlc_clamp(dlc) ==
    IF dlc <= 8 THEN dlc
    ELSE IF dlc = 9 THEN 12
    ELSE IF dlc = 10 THEN 16
    ELSE IF dlc = 11 THEN 20
    ELSE IF dlc = 12 THEN 24
    ELSE IF dlc = 13 THEN 32
    ELSE IF dlc = 14 THEN 48
    ELSE 64

get_length_from_dlc(dlc) ==
    IF dlc <= 8 THEN dlc
    ELSE IF dlc = 9 THEN 12
    ELSE IF dlc = 10 THEN 16
    ELSE IF dlc = 11 THEN 20
    ELSE IF dlc = 12 THEN 24
    ELSE IF dlc = 13 THEN 32
    ELSE IF dlc = 14 THEN 48
    ELSE IF dlc = 15 THEN 64
    ELSE 0

RemoteRequest == <<"R", "e", "m", "o", "t", "e", " ", "R", "e", "q", "u", "e", "s", "t">>

\* f"{n:02X}": two digits, zero-padded
FormatX2(n) == <<HexDigits[(n \div 16) + 1], HexDigits[(n % 16) + 1]>>

\* variant: the extended bit is tested instead of the remote bit
get_data_string_ext(data, dlc, msgtype) ==
    IF BitAnd(msgtype, PCAN_MESSAGE_EXTENDED) = PCAN_MESSAGE_EXTENDED
    THEN RemoteRequest
    ELSE LET bytes == Slice(data, dlc)
         IN  Join([i \in 1..Len(bytes) |-> FormatX(bytes[i])])

\* variant: every byte is zero-padded to two digits
get_data_string_padded(data, dlc, msgtype) ==
    IF BitAnd(msgtype, PCAN_MESSAGE_RTR) = PCAN_MESSAGE_RTR
    THEN RemoteRequest
    ELSE LET bytes == Slice(data, dlc)
         IN  Join([i \in 1..Len(bytes) |-> FormatX2(bytes[i])])

get_data_string(data, dlc, msgtype) ==
    IF BitAnd(msgtype, PCAN_MESSAGE_RTR) = PCAN_MESSAGE_RTR
    THEN RemoteRequest
    ELSE LET bytes == Slice(data, dlc)
         IN  Join([i \in 1..Len(bytes) |-> FormatX(bytes[i])])

(***************************************************************************)
(* get_time_string: time / 1000000.0 is the IEEE double nearest to the     *)
(* rational time/10^6 (the int converts to a double exactly below 2^53),   *)
(* then :.1f rounds the exact binary value of that double to one decimal,  *)
(* ties to even.  The double is represented by the rational it            *)
(* approximates and the sign of its rounding error: the error is below     *)
(* 2^-41 for time < 2^31, far less than the 10^-6 between two tick counts, *)
(* so the double lies on the same side of a decimal midpoint as the        *)
(* rational unless the rational is the midpoint itself.                    *)
(***************************************************************************)
RECURSIVE Pow2(_)
Pow2(n) == IF n = 0 THEN 1 ELSE 2 * Pow2(n - 1)

RECURSIVE ExponentUp(_, _)
\* for t >= 10^6: the e >= 0 with 2^e <= t/10^6 < 2^(e+1)
ExponentUp(t, e) ==
    IF t \div Pow2(e + 1) >= Million THEN ExponentUp(t, e + 1) ELSE e

RECURSIVE ExponentDown(_, _)
\* for 0 < t < 10^6: the n > 0 with 2^-n <= t/10^6 < 2^-(n-1)
ExponentDown(t, n) ==
    IF t * Pow2(n) >= Million THEN n ELSE ExponentDown(t, n + 1)

RECURSIVE DoubleMod(_, _)
\* (r * 2^k) mod 10^6
DoubleMod(r, k) == IF k = 0 THEN r ELSE DoubleMod((2 * r) % Million, k - 1)

\* sign of double(t / 10^6) - t/10^6: the 53-bit significand is
\* t * 2^k / 10^6 rounded to the nearest integer, k = 52 - exponent
TrueDivError(t) ==
    IF t = 0 THEN 0
    ELSE LET k == IF t >= Million THEN 52 - ExponentUp(t, 0)
                  ELSE 52 + ExponentDown(t, 1)
             r == DoubleMod(t % Million, k)
         IN  IF r = 0 THEN 0 ELSE IF 2 * r < Million THEN -1 ELSE 1

\* variant: the tenths are truncated instead of rounded
TimeTenths_trunc(time) == time \div 100000

\* the number of tenths :.1f prints for time / 1000000.0
TimeTenths(time) ==
    LET q == time \div 100000
        rem == time % 100000
        err == TrueDivError(time)
    IN  IF rem > 50000 THEN q + 1
        ELSE IF rem < 50000 THEN q
        ELSE IF err > 0 THEN q + 1
        ELSE IF err < 0 THEN q
        ELSE IF q % 2 = 0 THEN q ELSE q + 1

\* the text of a number of tenths, one fractional digit
FormatTenths(n) == FormatD(n \div 10) \o <<".">> \o FormatD(n % 10)

get_time_string(time) == FormatTenths(TimeTenths(time))

(***************************************************************************)
(* Status reporting.  GetErrorText of the library returns a status and a   *)
(* bytes text; the model keeps of the text only whether it contains        *)
(* "Bus error".                                                            *)
(***************************************************************************)
PCAN_ERROR_ILLPARAMVAL == 32768

ErrorTexts == [status : {PCAN_ERROR_OK, PCAN_ERROR_ILLPARAMVAL}, busError : BOOLEAN]

\* the value returned: the library's bytes text, or a str built by the code
get_formatted_error(error, stsReturn) ==
    IF stsReturn.status # PCAN_ERROR_OK
    THEN [type |-> "str", busError |-> FALSE]
    ELSE [type |-> "bytes", busError |-> stsReturn.busError]

\* what show_status printed and how it ended: the test b"Bus error" in
\* error_text raises TypeError when error_text is a str
show_status(status, stsReturn) ==
    LET error_text == get_formatted_error(status, stsReturn)
    IN  [status |-> status,
         suggested |-> error_text.type = "bytes" /\ error_text.busError,
         raised |-> error_text.type = "str"]

NoShown == [status |-> -1, suggested |-> FALSE, raised |-> FALSE]

(***************************************************************************)
(* process_message_fd: the five lines printed for one frame.               *)
(***************************************************************************)
process_message_fd(m, ts) ==
    [type |-> get_type_string(m.MSGTYPE),
     id |-> get_id_string(m.ID, m.MSGTYPE),
     length |-> get_length_from_dlc(m.DLC),
     time |-> get_time_string(ts),
     data |-> get_data_string(m.DATA, m.DLC, m.MSGTYPE)]

NoOut == [type |-> "", id |-> <<>>, length |-> -1, time |-> <<>>, data |-> <<>>]

Frames == [ID : Ids, MSGTYPE : MsgTypes, DLC : Dlcs, DATA : Payloads]
NoFrame == [ID |-> 0, MSGTYPE |-> 0, DLC |-> 0, DATA |-> PayloadA]

\* variant: every status but queue-empty is handed to the decoder
Dispatch_all(status) ==
    IF status # PCAN_ERROR_QRCVEMPTY
    THEN {"process_message_fd"}
    ELSE {"waiting"}

\* the branch of the loop body of read_messages taken for a status
Dispatch(status) ==
    IF status # PCAN_ERROR_QRCVEMPTY
    THEN IF status = PCAN_ERROR_OK
         THEN {"process_message_fd"}
         ELSE {"show_status"}
    ELSE {"waiting"}

(***************************************************************************)
(* State.                                                                  *)
(***************************************************************************)
VARIABLES
    pc,         \* where the process is: an initialization call, the loop, or exited
    exitCause,  \* "none", "sys.exit" or "TypeError"
    initLog,    \* the adapter calls of initialize_channel with their statuses
    started,    \* read_messages has called ReadFD
    sts,        \* the status of the last ReadFD
    msg,        \* the frame of the last ReadFD
    timestamp,  \* the timestamp of the last ReadFD
    calls,      \* what the last loop iteration invoked
    out,        \* what process_message_fd printed in the last iteration
    shown       \* the last show_status

vars == <<pc, exitCause, initLog, started, sts, msg, timestamp, calls, out, shown>>

Init ==
    /\ pc = "InitializeFD"
    /\ exitCause = "none"
    /\ initLog = <<>>
    /\ started = FALSE
    /\ sts = PCAN_ERROR_OK
    /\ msg = NoFrame
    /\ timestamp = 0
    /\ calls = {}
    /\ out = NoOut
    /\ shown = NoShown

\* variant: a failed call shows the status and goes on without sys.exit()
InitStep_noexit(call, next) ==
    /\ pc = call
    /\ \E s \in InitStatuses :
         /\ initLog' = Append(initLog, <<call, s>>)
         /\ IF s # PCAN_ERROR_OK
            THEN \E e \in ErrorTexts :
                   /\ shown' = show_status(s, e)
                   /\ pc' = IF shown'.raised THEN "exited" ELSE next
                   /\ exitCause' = IF shown'.raised THEN "TypeError" ELSE "none"
            ELSE /\ pc' = next
                 /\ UNCHANGED <<shown, exitCause>>
    /\ UNCHANGED <<started, sts, msg, timestamp, calls, out>>

\* one call of initialize_channel: on a status other than OK, show_status
\* and sys.exit(); show_status raising also ends the process
InitStep(call, next) ==
    /\ pc = call
    /\ \E s \in InitStatuses :
         /\ initLog' = Append(initLog, <<call, s>>)
         /\ IF s # PCAN_ERROR_OK
            THEN \E e \in ErrorTexts :
                   /\ shown' = show_status(s, e)
                   /\ pc' = "exited"
                   /\ exitCause' = IF shown'.raised THEN "TypeError" ELSE "sys.exit"
            ELSE /\ pc' = next
                 /\ UNCHANGED <<shown, exitCause>>
    /\ UNCHANGED <<started, sts, msg, timestamp, calls, out>>

InitializeFD == InitStep("InitializeFD", "SetValue_FILTER_CLOSE")

SetFilterClose == InitStep("SetValue_FILTER_CLOSE", "SetValue_FILTER_OPEN")

SetFilterOpen == InitStep("SetValue_FILTER_OPEN", "read_messages")

\* the body of the while True loop of read_messages, from the call of
\* ReadFD to the end of the branch taken
ReadMessages ==
    /\ pc = "read_messages"
    /\ started' = TRUE
    /\ \E s \in ReadStatuses :
         /\ sts' = s
         /\ calls' = Dispatch(s)
         /\ IF "process_message_fd" \in calls'
            THEN \E m \in Frames, ts \in Ticks :
                   /\ msg' = m
                   /\ timestamp' = ts
                   /\ out' = process_message_fd(m, ts)
            ELSE /\ msg' = NoFrame
                 /\ timestamp' = 0
                 /\ out' = NoOut
         /\ IF "show_status" \in calls'
            THEN \E e \in ErrorTexts :
                   /\ shown' = show_status(s, e)
                   /\ pc' = IF shown'.raised THEN "exited" ELSE "iterated"
                   /\ exitCause' = IF shown'.raised THEN "TypeError" ELSE "none"
            ELSE /\ shown' = NoShown
                 /\ pc' = "iterated"
                 /\ UNCHANGED exitCause
    /\ UNCHANGED initLog

\* while True: back to the head of the loop; the locals of the iteration
\* that ended are dead
LoopBack ==
    /\ pc = "iterated"
    /\ pc' = "read_messages"
    /\ sts' = PCAN_ERROR_OK
    /\ msg' = NoFrame
    /\ timestamp' = 0
    /\ calls' = {}
    /\ out' = NoOut
    /\ shown' = NoShown
    /\ UNCHANGED <<exitCause, initLog, started>>

Next == InitializeFD \/ SetFilterClose \/ SetFilterOpen \/ ReadMessages \/ LoopBack

Spec == Init /\ [][Next]_vars

(***************************************************************************)
(* Properties.                                                             *)
(***************************************************************************)
\* the iteration that just ended decoded a frame: msg, timestamp and out are its
Decoded == "process_message_fd" \in calls

\* an iteration of the loop has just ended, normally or by an exception
IterationEnded == pc = "iterated" \/ (pc = "exited" /\ started)

IsRemote(msgtype) == msgtype % 2 = 1

IsExtended(msgtype) == (msgtype \div 2) % 2 = 1

\* the CAN-FD length of the data length codes 0..15
LengthTable == <<0, 1, 2, 3, 4, 5, 6, 7, 8, 12, 16, 20, 24, 32, 48, 64>>

\* C1: the Length printed for a frame is dlc for dlc 0..8, is 12, 16, 20, 24,
\* 32, 48, 64 for dlc 9..15, and is 0 for every dlc above 15.
C1_LengthTable ==
    Decoded => out.length = IF msg.DLC <= 15 THEN LengthTable[msg.DLC + 1] ELSE 0

C1_Witness == Decoded /\ msg.DLC = 13 /\ out.length = 32

\* C2: for a frame without the remote flag, the Data printed is the first
\* length(dlc) bytes of the payload, as many bytes as the Length printed.
C2_RendersLengthBytes ==
    (Decoded /\ ~IsRemote(msg.MSGTYPE)) =>
        out.data = Join([i \in 1..out.length |-> FormatX(msg.DATA[i - 1])])

\* C3: the Type printed depends on the extended and remote bits only:
\* both -> RTR extended, extended only -> Extended, remote only -> RTR
\* standard, neither -> Standard, whatever the other bits of msgtype are.
C3_TypeLabel ==
    Decoded =>
        out.type = IF IsExtended(msg.MSGTYPE)
                   THEN IF IsRemote(msg.MSGTYPE) THEN "RTR Frame (Extended ID)"
                                                 ELSE "Extended Frame"
                   ELSE IF IsRemote(msg.MSGTYPE) THEN "RTR Frame (Standard ID)"
                                                 ELSE "Standard Frame"

\* remote and extended together with the FD, BRS and ESI bits
C3_Witness == Decoded /\ msg.MSGTYPE = 31 /\ out.type = "RTR Frame (Extended ID)"

\* C4: the ID printed is the hex of id mod 2^11 when the extended bit is
\* clear and the hex of the whole id when it is set, whatever the remote bit;
\* 0x1ABC standard prints 2BC, 0x1ABCDE extended prints 1ABCDE.
C4_IdText ==
    Decoded =>
        /\ out.id = IF IsExtended(msg.MSGTYPE) THEN FormatX(msg.ID)
                                               ELSE FormatX(msg.ID % 2048)
        /\ (msg.ID = 6844 /\ ~IsExtended(msg.MSGTYPE)) => out.id = <<"2", "B", "C">>
        /\ (msg.ID = 1752286 /\ IsExtended(msg.MSGTYPE)) =>
               out.id = <<"1", "A", "B", "C", "D", "E">>

\* a standard remote frame whose raw id has bits above bit 10
C4_Witness ==
    Decoded /\ msg.ID = 6844 /\ msg.MSGTYPE = 1 /\ out.id = <<"2", "B", "C">>

\* C5: for every frame with the remote flag, standard or extended, the Data
\* printed is exactly "Remote Request", whatever the payload and the dlc.
C5_RemoteRequest ==
    (Decoded /\ IsRemote(msg.MSGTYPE)) =>
        out.data = <<"R", "e", "m", "o", "t", "e", " ",
                     "R", "e", "q", "u", "e", "s", "t">>

C5_Witness ==
    /\ Decoded
    /\ msg.MSGTYPE = 1
    /\ msg.DLC = 9
    /\ msg.DATA = PayloadB
    /\ out.data = RemoteRequest

\* C6: every iteration of the loop does exactly one of three things: on status
\* OK it decodes the frame, on queue-empty it only prints the waiting notice,
\* on any other status it calls show_status with that status; the decoder
\* runs for no status but OK.
C6_PollOutcome ==
    IterationEnded =>
        /\ Cardinality(calls) = 1
        /\ sts = PCAN_ERROR_OK =>
               calls = {"process_message_fd"} /\ out # NoOut /\ shown = NoShown
        /\ sts = PCAN_ERROR_QRCVEMPTY =>
               calls = {"waiting"} /\ out = NoOut /\ shown = NoShown
        /\ sts \notin {PCAN_ERROR_OK, PCAN_ERROR_QRCVEMPTY} =>
               calls = {"show_status"} /\ out = NoOut /\ shown.status = sts

C6_Witness ==
    /\ pc = "iterated"
    /\ sts = PCAN_ERROR_QOVERRUN
    /\ calls = {"show_status"}
    /\ shown.status = PCAN_ERROR_QOVERRUN

\* C7: once read_messages has started it never terminates: a frame with
\* status OK decodes without error (Length 0 for a dlc above 15), and after
\* every status the loop goes on to poll again.
C7_LoopNeverHalts ==
    started =>
        /\ pc \in {"read_messages", "iterated"}
        /\ (Decoded /\ msg.DLC > 15) => out.length = 0

\* C8: the Time printed has exactly one fractional digit and is a tenth of a
\* second nearest to ticks / 10^6: 1500000 prints 1.5, 999999 prints 1.0,
\* 2345678 prints 2.3.
C8_TimeText ==
    Decoded =>
        /\ Len(out.time) >= 3
        /\ out.time[Len(out.time) - 1] = "."
        /\ \E n \in {timestamp \div 100000, (timestamp \div 100000) + 1} :
             /\ out.time = FormatTenths(n)
             /\ 100000 * n - timestamp <= 50000
             /\ timestamp - 100000 * n <= 50000
        /\ timestamp = 1500000 => out.time = <<"1", ".", "5">>
        /\ timestamp = 999999 => out.time = <<"1", ".", "0">>
        /\ timestamp = 2345678 => out.time = <<"2", ".", "3">>

C8_Witness == Decoded /\ timestamp = 999999 /\ out.time = <<"1", ".", "0">>

RECURSIVE Tokens(_)
\* the parts of a text between its spaces; a leading, trailing or doubled
\* space gives an empty part
Tokens(s) ==
    IF \E i \in 1..Len(s) : s[i] = " "
    THEN LET i == CHOOSE j \in 1..Len(s) :
                    s[j] = " " /\ \A k \in 1..(j - 1) : s[k] # " "
         IN  <<SubSeq(s, 1, i - 1)>> \o Tokens(SubSeq(s, i + 1, Len(s)))
    ELSE <<s>>

\* C9 as stated: without the remote flag, the Data printed is the payload
\* bytes in order, each as two uppercase hex digits (0x0A as 0A), separated
\* by one space, nothing before or after; dlc 0 prints the empty text.
C9_TwoDigitBytes ==
    (Decoded /\ ~IsRemote(msg.MSGTYPE)) =>
        /\ msg.DLC = 0 => out.data = <<>>
        /\ \/ out.data = <<>>
           \/ \A j \in 1..Len(Tokens(out.data)) :
                Tokens(out.data)[j] =
                    <<HexDigits[(msg.DATA[j - 1] \div 16) + 1],
                      HexDigits[(msg.DATA[j - 1] % 16) + 1]>>

\* C9 amended: without the remote flag, the Data printed is the payload
\* bytes in order, each as uppercase hex without padding (one digit below
\* 0x10, 0x0A as A, two digits otherwise), separated by one space, nothing
\* before or after; dlc 0 prints the empty text.
C9_UnpaddedBytes ==
    (Decoded /\ ~IsRemote(msg.MSGTYPE)) =>
        /\ msg.DLC = 0 => out.data = <<>>
        /\ \/ out.data = <<>>
           \/ \A j \in 1..Len(Tokens(out.data)) :
                Tokens(out.data)[j] =
                    IF msg.DATA[j - 1] < 16
                    THEN <<HexDigits[msg.DATA[j - 1] + 1]>>
                    ELSE <<HexDigits[(msg.DATA[j - 1] \div 16) + 1],
                           HexDigits[(msg.DATA[j - 1] % 16) + 1]>>

C9_Witness ==
    /\ Decoded
    /\ msg.MSGTYPE = 0
    /\ msg.DLC = 3
    /\ msg.DATA = PayloadA
    /\ out.data = <<"A", " ", "F", "F", " ", "1">>

\* the three adapter calls of initialize_channel, in order
InitCalls == <<"InitializeFD", "SetValue_FILTER_CLOSE", "SetValue_FILTER_OPEN">>

\* C10: ReadFD is called only after InitializeFD, SetValue(filter close) and
\* SetValue(filter open) returned OK in that order; when one of them returns
\* another status, show_status gets that status, the process has exited, no
\* later initialization call was made and read_messages is never entered.
C10_InitBeforeRead ==
    /\ Len(initLog) <= 3
    /\ \A i \in 1..Len(initLog) :
         /\ initLog[i][1] = InitCalls[i]
         /\ i < Len(initLog) => initLog[i][2] = PCAN_ERROR_OK
    /\ (started \/ pc \in {"read_messages", "iterated"}) =>
         /\ Len(initLog) = 3
         /\ \A i \in 1..3 : initLog[i][2] = PCAN_ERROR_OK
    /\ \A i \in 1..Len(initLog) :
         initLog[i][2] # PCAN_ERROR_OK =>
             /\ pc = "exited"
             /\ exitCause # "none"
             /\ shown.status = initLog[i][2]
             /\ ~started

\* the second call failed: the third was never made
C10_Witness ==
    /\ pc = "exited"
    /\ Len(initLog) = 2
    /\ initLog[2] = <<"SetValue_FILTER_CLOSE", PCAN_ERROR_ILLHW>>
    /\ shown.status = PCAN_ERROR_ILLHW
    /\ ~started

====
